---- MODULE Spec2Model ----
(***************************************************************************)
(* Token frequency tool (src/dancizhanbi.py): main() resolves the weight   *)
(* column, process_chinese and process_english aggregate weighted token    *)
(* counts per record, and main() concatenates and sorts the rows.          *)
(*                                                                         *)
(* Text is a sequence of Unicode code points, so that the regular          *)
(* expressions, slicing, " ".join, the "%.2f%%" formatting and the string  *)
(* comparison of the sort are modelled by what they do.                    *)
(* 苹 = 33529, 果 = 26524, 派 = 27966, a = 97, b = 98, space = 32,          *)
(* "0".."9" = 48..57, "." = 46, "%" = 37.                                  *)
(***************************************************************************)
EXTENDS Integers, Sequences, FiniteSets, TLC

\* ---------------------------------------------------------------- bounds
MaxRecords == 2
MaxWeight == 2
MaxMinLength == 2
MaxMinWords == 2
\* length of the long record, a single CJK run (one more than the window cap)
LongLen == 11

\* ------------------------------------------------------- program constant
\* `start + 11` in range(start + 1, min(start + 11, len(match) + 1))
WindowLimit == 11

\* ------------------------------------------------------------ input sets
LongHan == [k \in 1..LongLen |-> 33529]

\* The cell texts a record can hold.
Texts ==
  { <<33529, 26524>>,              \* "苹果"
    <<97, 32, 98, 32, 97>>,        \* "a b a"    three words, one twice
    <<26524, 97, 33529, 26524>>,   \* "果a苹果"  two runs and a word
    <<32>>,                        \* " "        no run, no word
    LongHan }                      \* 苹 x LongLen

\* The raw cells of a weight column: "0".."MaxWeight", "bad" and "".
Bad == <<98, 97, 100>>
Missing == <<>>

RECURSIVE Digits(_)
Digits(n) == IF n < 10 THEN <<48 + n>> ELSE Append(Digits(n \div 10), 48 + (n % 10))

RawCells == { Digits(n) : n \in 0..MaxWeight } \cup { Bad, Missing }

SeqsUpTo(S, n) == UNION { [1..m -> S] : m \in 0..n }

\* The behaviours of the external segmenter that are explored.
Segmenters == { "runs", "whole" }

\* --------------------------------------------------------------- helpers
Min(a, b) == IF a < b THEN a ELSE b

RECURSIVE Sum(_)
Sum(s) == IF s = <<>> THEN 0 ELSE Head(s) + Sum(Tail(s))

RECURSIVE Concat(_)
Concat(ss) == IF ss = <<>> THEN <<>> ELSE Head(ss) \o Concat(Tail(ss))

\* [一-龥]
chinese_pattern(c) == c >= 19968 /\ c <= 40869
\* [a-zA-Z]
english_pattern(c) == (c >= 65 /\ c <= 90) \/ (c >= 97 /\ c <= 122)

CharClass(c) ==
  IF chinese_pattern(c) THEN "han" ELSE IF english_pattern(c) THEN "alpha" ELSE "other"

\* re.findall of `class`+ : the maximal runs, left to right.
RECURSIVE Scan(_, _, _, _, _)
Scan(class, line, pos, cur, acc) ==
  IF pos > Len(line)
  THEN IF cur = <<>> THEN acc ELSE Append(acc, cur)
  ELSE IF CharClass(line[pos]) = class
       THEN Scan(class, line, pos + 1, Append(cur, line[pos]), acc)
       ELSE Scan(class, line, pos + 1, <<>>, IF cur = <<>> THEN acc ELSE Append(acc, cur))

findall(class, line) == Scan(class, line, 1, <<>>, <<>>)

\* " ".join(words)
RECURSIVE join(_)
join(words) ==
  IF words = <<>> THEN <<>>
  ELSE IF Len(words) = 1 THEN words[1]
  ELSE words[1] \o <<32>> \o join(Tail(words))

\* word.split(): the maximal runs of non-whitespace characters.
RECURSIVE SplitScan(_, _, _, _)
SplitScan(word, pos, cur, acc) ==
  IF pos > Len(word)
  THEN IF cur = <<>> THEN acc ELSE Append(acc, cur)
  ELSE IF word[pos] # 32
       THEN SplitScan(word, pos + 1, Append(cur, word[pos]), acc)
       ELSE SplitScan(word, pos + 1, <<>>, IF cur = <<>> THEN acc ELSE Append(acc, cur))

split(word) == SplitScan(word, 1, <<>>, <<>>)

\* jieba.lcut(line): an external function whose pieces concatenate to line.
\* Two behaviours are explored: the maximal runs of one character class, and
\* the whole line as one piece.
RECURSIVE ClassRuns(_, _, _, _)
ClassRuns(line, pos, cur, acc) ==
  IF pos > Len(line)
  THEN IF cur = <<>> THEN acc ELSE Append(acc, cur)
  ELSE IF cur = <<>> \/ CharClass(cur[1]) = CharClass(line[pos])
       THEN ClassRuns(line, pos + 1, Append(cur, line[pos]), acc)
       ELSE ClassRuns(line, pos + 1, <<line[pos]>>, Append(acc, cur))

lcut(seg, line) ==
  IF seg = "runs" THEN ClassRuns(line, 1, <<>>, <<>>)
  ELSE IF line = <<>> THEN <<>> ELSE <<line>>

\* ------------------------------------------ defaultdict(lambda: [0, set()])
\* A dict keeps insertion order: a sequence of entries, one per key.
HasKey(d, word) == \E k \in DOMAIN d : d[k].word = word

\* variant: d[word][0] = weight (the count is assigned, not added to)
AccumulateAssigned(d, word, weight, origin) ==
  IF HasKey(d, word)
  THEN LET k == CHOOSE x \in DOMAIN d : d[x].word = word
       IN  [d EXCEPT ![k] = [@ EXCEPT !.count = weight,
                                      !.originals = @ \cup {origin}]]
  ELSE Append(d, [word |-> word, count |-> weight, originals |-> {origin}])

\* variant: d[word][1] = {origin} (the provenance set is replaced, not added to)
AccumulateReplaced(d, word, weight, origin) ==
  IF HasKey(d, word)
  THEN LET k == CHOOSE x \in DOMAIN d : d[x].word = word
       IN  [d EXCEPT ![k] = [@ EXCEPT !.count = @ + weight,
                                      !.originals = {origin}]]
  ELSE Append(d, [word |-> word, count |-> 0 + weight, originals |-> {origin}])

\* d[word][0] += weight; d[word][1].add(origin)
Accumulate(d, word, weight, origin) ==
  IF HasKey(d, word)
  THEN LET k == CHOOSE x \in DOMAIN d : d[x].word = word
       IN  [d EXCEPT ![k] = [@ EXCEPT !.count = @ + weight,
                                      !.originals = @ \cup {origin}]]
  ELSE Append(d, [word |-> word, count |-> 0 + weight, originals |-> {origin}])

\* the accumulation of emitted[lo..hi], in order. The range is halved and the
\* left half is evaluated first (the test on Len) to keep the evaluation shallow.
RECURSIVE AccumulateRange(_, _, _, _, _)
AccumulateRange(d, emitted, weight, lo, hi) ==
  IF lo > hi THEN d
  ELSE IF lo = hi THEN Accumulate(d, emitted[lo].word, weight, emitted[lo].origin)
  ELSE LET mid == (lo + hi) \div 2
           left == AccumulateRange(d, emitted, weight, lo, mid)
       IN  IF Len(left) >= 0 THEN AccumulateRange(left, emitted, weight, mid + 1, hi)
           ELSE left

AccumulateAll(d, emitted, weight) == AccumulateRange(d, emitted, weight, 1, Len(emitted))

\* ------------------------------------------------- process_chinese, lines 16-31
\* variant: min(start + 12, len(match) + 1), a window one character too long
WindowEndOneMore(start, n) == Min(start + WindowLimit + 1, n + 1)

\* min(start + 11, len(match) + 1), start counted from 0
WindowEnd(start, n) == Min(start + WindowLimit, n + 1)

\* variant: chinese_word_count[word][1].add(word), the token instead of the run
WordsFromOwnText(match, start, min_length) ==
  LET all == [e \in 1..(WindowEnd(start, Len(match)) - start - 1) |->
                [word |-> SubSeq(match, start + 1, start + e),
                 origin |-> SubSeq(match, start + 1, start + e)]]
      Keep(x) == Len(x.word) >= min_length
  IN  SelectSeq(all, Keep)

\* for end in range(start + 1, WindowEnd): word = match[start:end]
WordsFrom(match, start, min_length) ==
  LET all == [e \in 1..(WindowEnd(start, Len(match)) - start - 1) |->
                [word |-> SubSeq(match, start + 1, start + e), origin |-> match]]
      Keep(x) == Len(x.word) >= min_length
  IN  SelectSeq(all, Keep)

\* for start in range(len(match))
MatchTokens(match, min_length) ==
  Concat([s \in 1..Len(match) |-> WordsFrom(match, s - 1, min_length)])

\* the tokens one record emits, with the string added to the provenance set
ChineseTokens(line, min_length, jieba, seg) ==
  IF jieba
  THEN LET all == [k \in DOMAIN lcut(seg, line) |->
                     [word |-> lcut(seg, line)[k], origin |-> line]]
           Keep(x) == Len(x.word) >= min_length
       IN  SelectSeq(all, Keep)
  ELSE LET ms == findall("han", line)
       IN  Concat([m \in DOMAIN ms |-> MatchTokens(ms[m], min_length)])

\* ------------------------------------------------- process_english, lines 48-53
\* variant: range(i + min_word_count, len(words)), the last word never ends a span
SpansFromShort(words, i, min_word_count) ==
  [n \in 1..(Len(words) - (i + min_word_count)) |->
     [word |-> join(SubSeq(words, i + 1, i + min_word_count + n - 1)),
      origin |-> join(words)]]

\* for j in range(i + min_word_count, len(words) + 1): " ".join(words[i:j])
SpansFrom(words, i, min_word_count) ==
  [n \in 1..(Len(words) + 1 - (i + min_word_count)) |->
     [word |-> join(SubSeq(words, i + 1, i + min_word_count + n - 1)),
      origin |-> join(words)]]

EnglishTokens(line, min_word_count) ==
  LET words == findall("alpha", line)
  IN  Concat([s \in 1..Len(words) |-> SpansFrom(words, s - 1, min_word_count)])

\* ---------------------------------------------------------- proportion
\* (count / total_rows) * 100 rounded to two decimals, in hundredths of a
\* percent. Ties (an exact ...5 in the third decimal) need total_rows to be
\* a multiple of 32 and round to even, as the formatting of a double does.
Hundredths(count, total_rows) ==
  LET q == (count * 10000) \div total_rows
      r == (count * 10000) % total_rows
  IN  IF 2 * r > total_rows THEN q + 1
      ELSE IF 2 * r = total_rows THEN q + (q % 2)
      ELSE q

\* f"{x:.2f}%"
FormatPercent(h) ==
  Digits(h \div 100) \o <<46, 48 + ((h % 100) \div 10), 48 + (h % 10), 37>>

\* the rows of one language class
Rows(d, total_rows, language) ==
  [k \in DOMAIN d |->
     [token_length |-> IF language = "chinese" THEN Len(d[k].word) ELSE Len(split(d[k].word)),
      token |-> d[k].word,
      count |-> d[k].count,
      proportion |-> FormatPercent(Hundredths(d[k].count, total_rows)),
      language |-> language,
      originals |-> d[k].originals]]

\* ------------------------------------------------ sort_values, line 143
\* str < str: by code point, a proper prefix first
RECURSIVE StrLess(_, _)
StrLess(a, b) ==
  IF b = <<>> THEN FALSE
  ELSE IF a = <<>> THEN TRUE
  ELSE IF Head(a) # Head(b) THEN Head(a) < Head(b)
  ELSE StrLess(Tail(a), Tail(b))

\* a sorts strictly before b under by=['占比', 'token length'], both descending
Precedes(a, b) ==
  \/ StrLess(b.proportion, a.proportion)
  \/ a.proportion = b.proportion /\ a.token_length > b.token_length

\* the sort is stable: a row goes before the first row it strictly precedes
InsertRow(sorted, row) ==
  LET later == { k \in DOMAIN sorted : Precedes(row, sorted[k]) }
      p == IF later = {} THEN Len(sorted) + 1
           ELSE CHOOSE k \in later : \A m \in later : k <= m
  IN  SubSeq(sorted, 1, p - 1) \o <<row>> \o SubSeq(sorted, p, Len(sorted))

RECURSIVE SortRange(_, _, _, _)
SortRange(sorted, rows, lo, hi) ==
  IF lo > hi THEN sorted
  ELSE IF lo = hi THEN InsertRow(sorted, rows[lo])
  ELSE LET mid == (lo + hi) \div 2
           left == SortRange(sorted, rows, lo, mid)
       IN  IF Len(left) >= 0 THEN SortRange(left, rows, mid + 1, hi) ELSE left

sort_values(rows) == SortRange(<<>>, rows, 1, Len(rows))

\* ------------------------------------------------ weight column, lines 107-132
\* pd.to_numeric(cell, errors='coerce'): <<n>> for a number, <<>> for NaN
RECURSIVE ParseDigits(_, _)
ParseDigits(cell, acc) ==
  IF cell = <<>> THEN acc
  ELSE ParseDigits(Tail(cell), acc * 10 + (Head(cell) - 48))

to_numeric(cell) ==
  IF cell # <<>> /\ \A k \in DOMAIN cell : cell[k] >= 48 /\ cell[k] <= 57
  THEN <<ParseDigits(cell, 0)>>
  ELSE <<>>

\* not df[col].dropna().empty and pd.to_numeric(df[col], errors='coerce').notna().all()
IsNumericColumn(column) ==
  /\ \E k \in DOMAIN column : column[k] # Missing
  /\ \A k \in DOMAIN column : to_numeric(column[k]) # <<>>

\* numeric_columns, lines 108-115, of a frame with the columns "text" and "weight"
NumericColumns(texts, cells) ==
  { c \in {"text", "weight"} : IsNumericColumn(IF c = "text" THEN texts ELSE cells) }

\* pd.to_numeric(df[weight_column], errors='coerce').fillna(1).tolist()
fillna(column) ==
  [k \in DOMAIN column |-> IF to_numeric(column[k]) = <<>> THEN 1 ELSE to_numeric(column[k])[1]]

\* ------------------------------------------------------------------ state
VARIABLES
  entry,                   \* the function entered: "main", "process_chinese", "process_english"
  data_set,                \* df[selected_column].tolist()
  weight_column,           \* the raw cells of the candidate weight column
  use_weight, use_jieba, segmenter,
  min_chinese_length, min_english_word_count,
  weight_list, total_rows,
  pc,                      \* "start", "chinese", "english", "sort", "done",
                           \* "returned", "rejected", "failed"
  error,                   \* "", "no_weight_column", "IndexError", "ZeroDivisionError"
  chinese_i, english_i,    \* records consumed by the loops of lines 13 and 45
  chinese_word_count, english_word_count,
  all_chinese_data, all_english_data,
  result_df

vars == <<entry, data_set, weight_column, use_weight, use_jieba, segmenter,
          min_chinese_length, min_english_word_count, weight_list, total_rows,
          pc, error, chinese_i, english_i, chinese_word_count, english_word_count,
          all_chinese_data, all_english_data, result_df>>

inputs == <<entry, data_set, weight_column, use_weight, use_jieba, segmenter,
            min_chinese_length, min_english_word_count>>

Fresh ==
  /\ error = ""
  /\ chinese_i = 0
  /\ english_i = 0
  /\ chinese_word_count = <<>>
  /\ english_word_count = <<>>
  /\ all_chinese_data = <<>>
  /\ all_english_data = <<>>
  /\ result_df = <<>>

\* main() after the file is read: one text column and one weight column
Init ==
  /\ entry = "main"
  /\ data_set \in SeqsUpTo(Texts, MaxRecords)
  /\ use_weight \in BOOLEAN
  /\ weight_column \in (IF use_weight
                        THEN [DOMAIN data_set -> RawCells]
                        ELSE {[k \in DOMAIN data_set |-> Missing]})
  /\ min_chinese_length \in 1..MaxMinLength
  /\ min_english_word_count \in 1..MaxMinWords
  /\ use_jieba \in BOOLEAN
  /\ segmenter \in (IF use_jieba THEN Segmenters ELSE {"runs"})
  /\ weight_list = <<>>
  /\ total_rows = 0
  /\ pc = "start"
  /\ Fresh

\* process_chinese or process_english called on its own: the weights are any
\* numbers, one per record, or a list of ones of any length; total_rows is
\* their sum, as in main(), line 134. The option the function does not read
\* has its default (lines 90-91).
InitCall ==
  /\ entry \in {"process_chinese", "process_english"}
  /\ data_set \in SeqsUpTo(Texts, MaxRecords)
  /\ weight_list \in [DOMAIN data_set -> 0..MaxWeight]
                     \cup { [k \in 1..m |-> 1] : m \in 0..(MaxRecords + 1) }
  /\ use_weight = FALSE
  /\ weight_column = [k \in DOMAIN data_set |-> Missing]
  /\ IF entry = "process_chinese"
     THEN /\ min_chinese_length \in 1..MaxMinLength
          /\ use_jieba \in BOOLEAN
          /\ segmenter \in (IF use_jieba THEN Segmenters ELSE {"runs"})
          /\ min_english_word_count = 1
          /\ pc = "chinese"
     ELSE /\ min_english_word_count \in 1..MaxMinWords
          /\ min_chinese_length = 3
          /\ use_jieba = FALSE
          /\ segmenter = "runs"
          /\ pc = "english"
  /\ total_rows = Sum(weight_list)
  /\ Fresh

\* main(), lines 104-134
ResolveWeights ==
  /\ pc = "start"
  /\ IF use_weight /\ NumericColumns(data_set, weight_column) = {}
     THEN /\ weight_list' = [k \in DOMAIN data_set |-> 1]
          /\ error' = "no_weight_column"
          /\ pc' = "rejected"
          /\ UNCHANGED total_rows
     ELSE /\ weight_list' \in
               IF use_weight
               THEN { fillna(IF c = "text" THEN data_set ELSE weight_column) :
                        c \in NumericColumns(data_set, weight_column) }
               ELSE { [k \in DOMAIN data_set |-> 1] }
          /\ total_rows' = Sum(weight_list')
          /\ pc' = "chinese"
          /\ UNCHANGED error
  /\ UNCHANGED <<inputs, chinese_i, english_i, chinese_word_count, english_word_count,
                 all_chinese_data, all_english_data, result_df>>

\* process_chinese, one iteration of the loop of line 13
ChineseRecord ==
  /\ pc = "chinese"
  /\ chinese_i < Len(data_set)
  /\ IF chinese_i + 1 > Len(weight_list)
     THEN /\ error' = "IndexError"
          /\ pc' = "failed"
          /\ UNCHANGED <<chinese_i, chinese_word_count>>
     ELSE /\ chinese_word_count' =
               AccumulateAll(chinese_word_count,
                             ChineseTokens(data_set[chinese_i + 1], min_chinese_length,
                                           use_jieba, segmenter),
                             weight_list[chinese_i + 1])
          /\ chinese_i' = chinese_i + 1
          /\ UNCHANGED <<pc, error>>
  /\ UNCHANGED <<inputs, weight_list, total_rows, english_i, english_word_count,
                 all_chinese_data, all_english_data, result_df>>

\* process_chinese, lines 32-39
ChineseRows ==
  /\ pc = "chinese"
  /\ chinese_i = Len(data_set)
  /\ IF chinese_word_count # <<>> /\ total_rows = 0
     THEN /\ error' = "ZeroDivisionError"
          /\ pc' = "failed"
          /\ UNCHANGED all_chinese_data
     ELSE /\ all_chinese_data' = Rows(chinese_word_count, total_rows, "chinese")
          /\ pc' = IF entry = "main" THEN "english" ELSE "returned"
          /\ UNCHANGED error
  /\ UNCHANGED <<inputs, weight_list, total_rows, chinese_i, english_i,
                 chinese_word_count, english_word_count, all_english_data, result_df>>

\* process_english, one iteration of the loop of line 45
EnglishRecord ==
  /\ pc = "english"
  /\ english_i < Len(data_set)
  /\ IF english_i + 1 > Len(weight_list)
     THEN /\ error' = "IndexError"
          /\ pc' = "failed"
          /\ UNCHANGED <<english_i, english_word_count>>
     ELSE /\ english_word_count' =
               AccumulateAll(english_word_count,
                             EnglishTokens(data_set[english_i + 1], min_english_word_count),
                             weight_list[english_i + 1])
          /\ english_i' = english_i + 1
          /\ UNCHANGED <<pc, error>>
  /\ UNCHANGED <<inputs, weight_list, total_rows, chinese_i, chinese_word_count,
                 all_chinese_data, all_english_data, result_df>>

\* process_english, lines 54-61
EnglishRows ==
  /\ pc = "english"
  /\ english_i = Len(data_set)
  /\ IF english_word_count # <<>> /\ total_rows = 0
     THEN /\ error' = "ZeroDivisionError"
          /\ pc' = "failed"
          /\ UNCHANGED all_english_data
     ELSE /\ all_english_data' = Rows(english_word_count, total_rows, "english")
          /\ pc' = IF entry = "main" THEN "sort" ELSE "returned"
          /\ UNCHANGED error
  /\ UNCHANGED <<inputs, weight_list, total_rows, chinese_i, english_i,
                 chinese_word_count, english_word_count, all_chinese_data, result_df>>

\* main(), lines 139-143
SortResult ==
  /\ pc = "sort"
  /\ result_df' = sort_values(all_chinese_data \o all_english_data)
  /\ pc' = "done"
  /\ UNCHANGED <<inputs, weight_list, total_rows, error, chinese_i, english_i,
                 chinese_word_count, english_word_count, all_chinese_data,
                 all_english_data>>

Next ==
  \/ ResolveWeights
  \/ ChineseRecord
  \/ ChineseRows
  \/ EnglishRecord
  \/ EnglishRows
  \/ SortResult

\* the whole of main()
Spec == Init /\ [][Next]_vars

NextCall ==
  \/ ChineseRecord
  \/ ChineseRows
  \/ EnglishRecord
  \/ EnglishRows

\* process_chinese and process_english as functions of their arguments
SpecCall == InitCall /\ [][NextCall]_vars

\* ------------------------------------------------------------ properties
Words(d) == { d[k].word : k \in DOMAIN d }

Lookup(d, word) == d[CHOOSE k \in DOMAIN d : d[k].word = word]

Contains(text, word) ==
  \E s \in 0..(Len(text) - Len(word)) : SubSeq(text, s + 1, s + Len(word)) = word

\* the positions <<run, start>> of a record at which `word` is a substring of a run
RunPositions(line, word) ==
  LET runs == findall("han", line)
  IN  { p \in (DOMAIN runs) \X (0..Len(line)) :
          /\ p[2] + Len(word) <= Len(runs[p[1]])
          /\ SubSeq(runs[p[1]], p[2] + 1, p[2] + Len(word)) = word }

LongestRun(line) ==
  LET runs == findall("han", line)
  IN  IF runs = <<>> THEN 0
      ELSE Len(runs[CHOOSE m \in DOMAIN runs : \A n \in DOMAIN runs : Len(runs[n]) <= Len(runs[m])])

\* the substrings [start, end) of the runs of a record with lo <= end - start <= hi
Windows(line, lo, hi) ==
  LET runs == findall("han", line)
  IN  UNION { { SubSeq(runs[p[1]], p[2], p[2] + p[3] - 1) :
                  p \in { q \in {m} \X (1..Len(runs[m])) \X (lo..hi) :
                            q[2] + q[3] - 1 <= Len(runs[m]) } }
              : m \in DOMAIN runs }

\* the number of positions of a record at which the CJK enumerator emits `word`
ChineseOccurrences(line, word) ==
  IF use_jieba
  THEN IF Len(word) >= min_chinese_length
       THEN Cardinality({ k \in DOMAIN lcut(segmenter, line) : lcut(segmenter, line)[k] = word })
       ELSE 0
  ELSE IF Len(word) >= min_chinese_length /\ Len(word) <= 10
       THEN Cardinality(RunPositions(line, word))
       ELSE 0

\* the texts the CJK enumerator emits for a record
ChineseEmitted(line) ==
  IF use_jieba
  THEN { w \in { lcut(segmenter, line)[k] : k \in DOMAIN lcut(segmenter, line) } :
           Len(w) >= min_chinese_length }
  ELSE Windows(line, min_chinese_length, 10)

\* the pairs (i, j) with 0 <= i < j <= k and j - i >= m
SpanPairs(k, m) == { p \in (0..k) \X (0..k) : p[1] < p[2] /\ p[2] - p[1] >= m }

SpanText(line, p) == join(SubSeq(findall("alpha", line), p[1] + 1, p[2]))

WordCount(line) == Len(findall("alpha", line))

\* the number of span positions of a record that spell `word`
EnglishOccurrences(line, word) ==
  Cardinality({ p \in SpanPairs(WordCount(line), min_english_word_count) :
                  SpanText(line, p) = word })

EnglishCandidates(line) ==
  { SpanText(line, p) : p \in SpanPairs(WordCount(line), min_english_word_count) }

NoDuplicateKey(d) ==
  \A k1 \in DOMAIN d : \A k2 \in DOMAIN d : d[k1].word = d[k2].word => k1 = k2

\* spec scenario 3: "苹果" (weight 3) and "苹果派" (weight 1), minimum length 2
Scenario3 ==
  LET d1 == AccumulateAll(<<>>, ChineseTokens(<<33529, 26524>>, 2, FALSE, "runs"), 3)
      d2 == AccumulateAll(d1, ChineseTokens(<<33529, 26524, 27966>>, 2, FALSE, "runs"), 1)
  IN  /\ HasKey(d2, <<33529, 26524>>)
      /\ Lookup(d2, <<33529, 26524>>).count = 4

\* C3: the weighted count of every token of a class is the sum, over the
\* records aggregated so far and the positions at which the enumerator emits
\* that text, of the record's own weight; equal texts share one entry, and
\* every emitted text has an entry ("苹果" x3 and "苹果派" x1 give "苹果" 4).
C3Theorem ==
  /\ \A k \in DOMAIN chinese_word_count :
       chinese_word_count[k].count =
         Sum([r \in 1..chinese_i |->
                weight_list[r] * ChineseOccurrences(data_set[r], chinese_word_count[k].word)])
  /\ \A k \in DOMAIN english_word_count :
       english_word_count[k].count =
         Sum([r \in 1..english_i |->
                weight_list[r] * EnglishOccurrences(data_set[r], english_word_count[k].word)])
  /\ NoDuplicateKey(chinese_word_count)
  /\ NoDuplicateKey(english_word_count)
  /\ Words(chinese_word_count) = UNION { ChineseEmitted(data_set[r]) : r \in 1..chinese_i }
  /\ Words(english_word_count) = UNION { EnglishCandidates(data_set[r]) : r \in 1..english_i }
  /\ Scenario3

\* two records with different weights share the token "苹果"
C3Witness ==
  /\ entry = "process_chinese"
  /\ ~use_jieba
  /\ min_chinese_length = 2
  /\ data_set = << <<33529, 26524>>, <<26524, 97, 33529, 26524>> >>
  /\ weight_list = <<2, 1>>
  /\ chinese_i = 2
  /\ Lookup(chinese_word_count, <<33529, 26524>>).count = 3

SumCounts(d) == Sum([k \in DOMAIN d |-> d[k].count])

\* C5: the words of a record form one sequence of k words, and one span is
\* emitted for every pair (i, j), 0 <= i < j <= k, j - i >= M, with no cap on
\* j - i: the counts a record of weight w adds sum to w times the number of
\* pairs, which is w * k * (k + 1) / 2 when M = 1.
C5Theorem ==
  /\ SumCounts(english_word_count) =
       Sum([r \in 1..english_i |->
              weight_list[r] * Cardinality(SpanPairs(WordCount(data_set[r]),
                                                     min_english_word_count))])
  /\ min_english_word_count = 1 =>
       2 * SumCounts(english_word_count) =
         Sum([r \in 1..english_i |->
                weight_list[r] * WordCount(data_set[r]) * (WordCount(data_set[r]) + 1)])
  /\ \A r \in 1..english_i :
       \A p \in SpanPairs(WordCount(data_set[r]), min_english_word_count) :
         /\ HasKey(english_word_count, SpanText(data_set[r], p))
         /\ Lookup(english_word_count, SpanText(data_set[r], p)).count
              >= weight_list[r] * EnglishOccurrences(data_set[r], SpanText(data_set[r], p))
  /\ \A r \in 1..english_i :
       (WordCount(data_set[r]) >= min_english_word_count) =>
         HasKey(english_word_count, join(findall("alpha", data_set[r])))

\* "a b a" (k = 3, weight 2, M = 1) adds 2 * 6 to the counts, the span of all
\* three words included
C5Witness ==
  /\ entry = "process_english"
  /\ min_english_word_count = 1
  /\ data_set = << <<97, 32, 98, 32, 97>> >>
  /\ weight_list = <<2>>
  /\ english_i = 1
  /\ SumCounts(english_word_count) = 12
  /\ Lookup(english_word_count, <<97>>).count = 4
  /\ HasKey(english_word_count, <<97, 32, 98, 32, 97>>)

\* C9: the provenance set of a CJK token is, in brute-force mode, the set of
\* maximal CJK runs of the aggregated records that contain it; in segmenter
\* mode the set of record texts for which the segmenter returned it; the
\* provenance set of a Latin token is the set of space-joined word sequences
\* of the records that produced it.
C9Theorem ==
  /\ \A k \in DOMAIN chinese_word_count :
       LET t == chinese_word_count[k].word
       IN  chinese_word_count[k].originals =
             IF use_jieba
             THEN { data_set[r] : r \in { x \in 1..chinese_i :
                      \E n \in DOMAIN lcut(segmenter, data_set[x]) :
                        lcut(segmenter, data_set[x])[n] = t } }
             ELSE { run \in UNION { { findall("han", data_set[r])[m] :
                                        m \in DOMAIN findall("han", data_set[r]) }
                                    : r \in 1..chinese_i } :
                      Contains(run, t) }
  /\ \A k \in DOMAIN english_word_count :
       LET t == english_word_count[k].word
       IN  english_word_count[k].originals =
             { join(findall("alpha", data_set[r])) :
                 r \in { x \in 1..english_i : t \in EnglishCandidates(data_set[x]) } }

\* "果" comes from the run "果" and from the run "苹果" of the record
\* "果a苹果", and again from the record "苹果": two runs, none the record text
C9Witness ==
  /\ entry = "process_chinese"
  /\ ~use_jieba
  /\ data_set = << <<26524, 97, 33529, 26524>>, <<33529, 26524>> >>
  /\ chinese_i = 2
  /\ HasKey(chinese_word_count, <<26524>>)
  /\ Lookup(chinese_word_count, <<26524>>).originals = { <<26524>>, <<33529, 26524>> }

\* every entry comes from a record whose longest CJK run has the minimum length
FromLongEnoughRuns ==
  \A k \in DOMAIN chinese_word_count :
    \A o \in chinese_word_count[k].originals :
      \E r \in 1..chinese_i :
        /\ LongestRun(data_set[r]) >= min_chinese_length
        /\ \/ o = data_set[r]
           \/ \E m \in DOMAIN findall("han", data_set[r]) : o = findall("han", data_set[r])[m]

\* C4, as claimed: in either mode every CJK row has a token of at least L and
\* at most 10 characters; in brute-force mode the tokens are exactly the
\* substrings of runs with L <= length <= 10; a record whose longest CJK run
\* is shorter than L contributes no CJK token.
C4Claim ==
  /\ \A k \in DOMAIN chinese_word_count :
       /\ Len(chinese_word_count[k].word) >= min_chinese_length
       /\ Len(chinese_word_count[k].word) <= 10
  /\ \A k \in DOMAIN all_chinese_data :
       /\ all_chinese_data[k].token_length >= min_chinese_length
       /\ all_chinese_data[k].token_length <= 10
  /\ ~use_jieba =>
       Words(chinese_word_count) =
         UNION { Windows(data_set[r], min_chinese_length, 10) : r \in 1..chinese_i }
  /\ FromLongEnoughRuns

\* C4, amended: in either mode every CJK row has a token of at least L
\* characters; in brute-force mode it has at most 10, the tokens are exactly
\* the substrings of runs with L <= length <= 10, and a record whose longest
\* CJK run is shorter than L contributes no CJK token.
C4Theorem ==
  /\ \A k \in DOMAIN chinese_word_count :
       /\ Len(chinese_word_count[k].word) >= min_chinese_length
       /\ ~use_jieba => Len(chinese_word_count[k].word) <= 10
  /\ \A k \in DOMAIN all_chinese_data :
       /\ all_chinese_data[k].token_length >= min_chinese_length
       /\ all_chinese_data[k].token_length = Len(all_chinese_data[k].token)
       /\ ~use_jieba => all_chinese_data[k].token_length <= 10
  /\ ~use_jieba =>
       /\ Words(chinese_word_count) =
            UNION { Windows(data_set[r], min_chinese_length, 10) : r \in 1..chinese_i }
       /\ FromLongEnoughRuns

\* a run longer than the window has been enumerated: its longest row has 10
\* characters
C4Witness ==
  /\ entry = "process_chinese"
  /\ ~use_jieba
  /\ pc = "returned"
  /\ \E r \in DOMAIN data_set : LongestRun(data_set[r]) > 10
  /\ \E k \in DOMAIN all_chinese_data : all_chinese_data[k].token_length = 10

\* the map of one class, as a set of entries
AsMap(d) == { d[k] : k \in DOMAIN d }

CountIn(m, word) == IF \E e \in m : e.word = word
                    THEN (CHOOSE e \in m : e.word = word).count ELSE 0

OriginalsIn(m, word) == IF \E e \in m : e.word = word
                        THEN (CHOOSE e \in m : e.word = word).originals ELSE {}

\* partial maps merged: counts summed, provenance sets united
MergeMaps(m1, m2) ==
  { [word |-> w, count |-> CountIn(m1, w) + CountIn(m2, w),
     originals |-> OriginalsIn(m1, w) \cup OriginalsIn(m2, w)]
    : w \in { e.word : e \in m1 \cup m2 } }

\* the orders in which the records of S can be processed
Orders(S) == { o \in [1..Cardinality(S) -> S] : \A a, b \in DOMAIN o : o[a] = o[b] => a = b }

Ascending(S) == CHOOSE o \in Orders(S) : \A a, b \in DOMAIN o : a < b => o[a] < o[b]

\* the aggregation of the records order[1], order[2], ... by the loop body
RECURSIVE ChineseFold(_)
ChineseFold(order) ==
  IF order = <<>> THEN <<>>
  ELSE LET n == Len(order)
       IN  AccumulateAll(ChineseFold(SubSeq(order, 1, n - 1)),
                         ChineseTokens(data_set[order[n]], min_chinese_length,
                                       use_jieba, segmenter),
                         weight_list[order[n]])

RECURSIVE EnglishFold(_)
EnglishFold(order) ==
  IF order = <<>> THEN <<>>
  ELSE LET n == Len(order)
       IN  AccumulateAll(EnglishFold(SubSeq(order, 1, n - 1)),
                         EnglishTokens(data_set[order[n]], min_english_word_count),
                         weight_list[order[n]])

\* a pass that is over has aggregated the records 1..chinese_i (1..english_i)
OrderIndependent ==
  (pc \notin {"chinese", "english"}) =>
  /\ \A o \in Orders(1..chinese_i) : AsMap(ChineseFold(o)) = AsMap(chinese_word_count)
  /\ \A S \in SUBSET (1..chinese_i) :
       MergeMaps(AsMap(ChineseFold(Ascending(S))),
                 AsMap(ChineseFold(Ascending((1..chinese_i) \ S))))
         = AsMap(chinese_word_count)
  /\ \A o \in Orders(1..english_i) : AsMap(EnglishFold(o)) = AsMap(english_word_count)
  /\ \A S \in SUBSET (1..english_i) :
       MergeMaps(AsMap(EnglishFold(Ascending(S))),
                 AsMap(EnglishFold(Ascending((1..english_i) \ S))))
         = AsMap(english_word_count)

Kept(d, e) ==
  \A k \in DOMAIN d :
    \E n \in DOMAIN e : e[n].word = d[k].word /\ d[k].originals \subseteq e[n].originals

EntriesKept ==
  /\ Kept(chinese_word_count, chinese_word_count')
  /\ Kept(english_word_count, english_word_count')

\* C10: when a pass is over, the map of a class is the same for every order of the aggregated
\* (record, weight) pairs and for every split into two parts merged by summing
\* counts and uniting provenance sets; a step never removes an entry and
\* never shrinks a provenance set.
C10Theorem == []OrderIndependent /\ [][EntriesKept]_vars

\* two records of different weights that share the token "苹" are aggregated
C10Witness ==
  /\ entry = "process_chinese"
  /\ ~use_jieba
  /\ min_chinese_length = 1
  /\ data_set = << <<26524, 97, 33529, 26524>>, <<33529, 26524>> >>
  /\ weight_list = <<1, 2>>
  /\ pc = "returned"
  /\ Lookup(chinese_word_count, <<33529>>).count = 3

\* C6: a weight sequence whose length differs from the number of records is
\* rejected before any record is processed; no record is aggregated and no
\* row is produced.
C6Claim ==
  Len(weight_list) # Len(data_set) =>
    /\ chinese_i = 0
    /\ english_i = 0
    /\ all_chinese_data = <<>>
    /\ all_english_data = <<>>
    /\ pc # "returned"

\* the number a proportion string "X.XX%" stands for, in hundredths of a percent
ProportionValue(p) ==
  ParseDigits(SubSeq(p, 1, Len(p) - 4), 0) * 100
    + (p[Len(p) - 2] - 48) * 10 + (p[Len(p) - 1] - 48)

\* C1: the sorted rows are ordered by the numeric value of the proportion,
\* descending, ties broken by token length descending.
C1Claim ==
  \A k \in 1..(Len(result_df) - 1) :
    \/ ProportionValue(result_df[k].proportion) > ProportionValue(result_df[k + 1].proportion)
    \/ /\ ProportionValue(result_df[k].proportion) = ProportionValue(result_df[k + 1].proportion)
       /\ result_df[k].token_length >= result_df[k + 1].token_length

\* C2: with a total weight T > 0, every row of either class has
\* 0 < weighted_count <= T, so a proportion of at most 100%.
C2Claim ==
  total_rows > 0 =>
    \A row \in AsMap(all_chinese_data) \cup AsMap(all_english_data) :
      /\ 0 < row.count
      /\ row.count <= total_rows
      /\ ProportionValue(row.proportion) <= 10000

\* C7: a non-empty record sequence of total weight 0 never ends normally.
C7Claim == ~(pc = "done" /\ Len(data_set) > 0 /\ total_rows = 0)

\* C8: once the weights of a non-empty record sequence are resolved, there
\* is one weight per record, a raw weight that parses resolves to its number
\* and any other raw weight to 1 (without a weight source every weight is 1
\* and the total is the number of records); the column is never refused.
C8Claim ==
  (pc # "start" /\ data_set # <<>>) =>
    /\ pc # "rejected"
    /\ Len(weight_list) = Len(data_set)
    /\ \A k \in DOMAIN weight_list :
         weight_list[k] = IF use_weight /\ to_numeric(weight_column[k]) # <<>>
                          THEN to_numeric(weight_column[k])[1]
                          ELSE 1
    /\ ~use_weight => total_rows = Len(data_set)

====
